---- MODULE Spec2Model ----
(***************************************************************************)
(* Model of the GitHub data-access layer of github-pr-resource:            *)
(* GithubClient (REST "V3" and GraphQL "V4" calls, pagination loops),      *)
(* parseRepository, Source.Validate, NewVersion and Metadata.              *)
(*                                                                         *)
(* One client call runs at a time (the code is synchronous).  A call is    *)
(* started by a Call* action, which draws the call's arguments and the     *)
(* content held by the remote for that call; every later action is one     *)
(* request to the remote together with all the code that runs up to the    *)
(* next request or to the return.  Strings the code inspects character by  *)
(* character (repository identifier, prNumber) are sequences of one-       *)
(* character strings; "" is <<>>.  Cursors are naturals: 0 is the empty    *)
(* string and i is the end-cursor of page i.  A nil slice and an empty     *)
(* slice are both <<>>; a nil pointer result is <<>>, a non-nil one <<v>>. *)
(***************************************************************************)
EXTENDS Integers, Sequences, FiniteSets, TLC

\* ---------------------------------------------------------------- bounds
MaxPages == 3          \* pages of changed files held by the remote
MaxPerPage == 2        \* items on one page of files
MaxSearchNodes == 3    \* nodes of the search result held by the remote
MaxLimit == 2          \* limit argument of SearchPullRequests (nodes per page)
MaxLabels == 1         \* label edges on one search node
MaxFetch == 2          \* page fetches of one SearchPullRequests call
MaxCommits == 3        \* commit edges in the window of GetPullRequest
MaxComments == 3       \* comment edges fetched by DeletePreviousComments
MaxRepoLen == 5        \* characters of a repository identifier
MaxStates == 2         \* entries of Source.States
MaxMetadata == 3       \* Adds to one Metadata

\* ------------------------------------------------------- program constants
commitsLast == 1       \* SearchPullRequests asks for the last commit only

\* ---------------------------------------------------------------- errors
ErrNil == "nil"
ErrAtoi == "failed to convert pull request number to int"
ErrCommitRef == "commit with ref does not exist"
ErrMalformed == "malformed repository"
ErrV3Endpoint == "failed to parse v3 endpoint"
ErrV4Endpoint == "failed to parse v4 endpoint"
ErrToken == "access_token must be set"
ErrRepository == "repository must be set"
ErrV4Missing == "v4_endpoint must be set together with v3_endpoint"
ErrV3Missing == "v3_endpoint must be set together with v4_endpoint"
ErrState(state) == "states value \"" \o state \o "\" must be one of: OPEN, MERGED, CLOSED"

\* The errors a request to the remote can come back with.
TransportErrors == {"401 Bad credentials", "connection reset"}

\* ---------------------------------------------------------------- strings
SeqsUpTo(S, n) == UNION {[1..k -> S] : k \in 0..n}

DigitChars == <<"0", "1", "2", "3", "4", "5", "6", "7", "8", "9">>
IsDigit(c) == \E i \in 1..10 : DigitChars[i] = c
DigitVal(c) == (CHOOSE i \in 1..10 : DigitChars[i] = c) - 1

\* strconv.Atoi: an optional sign, then one or more decimal digits.
AtoiDigits(s) == IF Len(s) > 0 /\ s[1] \in {"+", "-"} THEN Tail(s) ELSE s
\* Mutant: no digit is required, so "" and "-" convert (to 0).
AtoiOkWithoutDigits(s) == \A i \in 1..Len(AtoiDigits(s)) : IsDigit(AtoiDigits(s)[i])

AtoiOk(s) == /\ Len(AtoiDigits(s)) > 0
             /\ \A i \in 1..Len(AtoiDigits(s)) : IsDigit(AtoiDigits(s)[i])
RECURSIVE DecimalValue(_)
DecimalValue(d) ==
    IF d = <<>> THEN 0
    ELSE 10 * DecimalValue(SubSeq(d, 1, Len(d) - 1)) + DigitVal(d[Len(d)])
Atoi(s) == IF Len(s) > 0 /\ s[1] = "-" THEN 0 - DecimalValue(AtoiDigits(s))
           ELSE DecimalValue(AtoiDigits(s))

\* prNumber arguments tried: "42", "7", "-1", "+7", "", "x", "4x", "-".
PrNumberStrings ==
    { <<"4", "2">>, <<"7">>, <<"-", "1">>, <<"+", "7">>,
      <<>>, <<"x">>, <<"4", "x">>, <<"-">> }

\* ------------------------------------------------------------ remote data
\* Page p (1-based) of the changed files of the pull request holds n items;
\* item i of page p is the file named <<p, i>>, so every file is distinct.
FilePage(p, n) == [i \in 1..n |-> <<p, i>>]
FilePagesOf(lens) == [p \in 1..Len(lens) |-> FilePage(p, lens[p])]
FilePageSets ==
    { FilePagesOf(lens) :
        lens \in UNION {[1..k -> 0..MaxPerPage] : k \in 1..MaxPages} }

\* stalls: the continuation signal of the last page of files does not advance.
\* approvals, labels: the approved reviews and the labels of the pull request.
NoRemote == [files |-> <<>>, stalls |-> FALSE, search |-> <<>>,
             pr |-> [Number |-> 0, State |-> "", UpdatedAt |-> ""],
             approvals |-> 0, labels |-> <<>>,
             commits |-> <<>>, viewer |-> "", comments |-> <<>>]

\* ------------------------------------------------------------------ state
VARIABLES
    pc,        \* position of the running call: "idle", a loop label, "done"
    op,        \* name of the running (or just finished) call
    args,      \* its arguments
    remote,    \* what the remote holds for this call
    requests,  \* requests issued to the remote in this call, in order
    cursor,    \* opt.Page / offset / vars["prCursor"] of the running loop
    acc,       \* files / cfo / response accumulated by the running loop
    getComments, \* response of the getComments query, and the loop's position in it
    ret,       \* value returned by the call
    err,       \* error returned by the call
    metadata,  \* the Metadata under construction
    firstCall  \* outcome of the GetChangedFiles call that the running one repeats

vars == <<pc, op, args, remote, requests, cursor, acc, getComments, ret, err,
         metadata, firstCall>>

NoArgs == [none |-> TRUE]
NoComments == [Viewer |-> "", Edges |-> <<>>, idx |-> 0]
NoFirst == [set |-> FALSE, commitRef |-> "", requests |-> <<>>, ret |-> <<>>, err |-> ErrNil]

Init ==
    /\ pc = "idle"
    /\ op = "none"
    /\ args = NoArgs
    /\ remote = NoRemote
    /\ requests = <<>>
    /\ cursor = 0
    /\ acc = <<>>
    /\ getComments = NoComments
    /\ ret = <<>>
    /\ err = ErrNil
    /\ metadata = <<>>
    /\ firstCall = NoFirst

Request(api, arg, outcome) == [api |-> api, arg |-> arg, outcome |-> outcome]

\* return v, e
Return(v, e) ==
    /\ pc' = "done"
    /\ ret' = v
    /\ err' = e

\* Mutant: a failed fetch returns what was accumulated along with the error.
FetchErrorKeepsPartial(partial, e) == [ret |-> partial, err |-> e]

\* if err != nil { return nil, err } in a pagination loop that has accumulated
\* partial so far.
FetchError(partial, e) == [ret |-> <<>>, err |-> e]

\* --------------------------------------------------- ListModifiedFiles
\* The REST listing: page 0 (unset) is page 1.
ListFilesPageIndex(page) == IF page = 0 THEN 1 ELSE page
ListFilesResult(pages, page) == pages[ListFilesPageIndex(page)]
\* response.NextPage: 0 after the last page, unless the remote stalls and
\* names the current page as the next one.
ListFilesNextPage(pages, page, stalls) ==
    IF ListFilesPageIndex(page) < Len(pages) THEN ListFilesPageIndex(page) + 1
    ELSE IF stalls THEN ListFilesPageIndex(page) ELSE 0

\* for _, f := range result { files = append(files, *f.Filename) }
AppendFilenames(files, result) == files \o result

CallListModifiedFiles ==
    /\ pc = "idle"
    /\ \E pages \in FilePageSets, stalls \in BOOLEAN, prNumber \in {7, 42} :
          /\ remote' = [NoRemote EXCEPT !.files = pages, !.stalls = stalls]
          /\ args' = [prNumber |-> prNumber]
    /\ op' = "ListModifiedFiles"
    /\ pc' = "listFiles"
    /\ cursor' = 0
    /\ acc' = <<>>
    /\ UNCHANGED <<requests, getComments, ret, err>>
    /\ UNCHANGED <<metadata, firstCall>>

\* One iteration of the loop of ListModifiedFiles.
ListFilesFetch ==
    /\ pc = "listFiles"
    /\ Len(requests) <= MaxPages
    /\ \/ \E e \in TransportErrors :
             /\ requests' = Append(requests, Request("V3.ListFiles", cursor, e))
             /\ Return(FetchError(acc, e).ret, FetchError(acc, e).err)
             /\ UNCHANGED <<cursor, acc>>
       \/ /\ requests' = Append(requests, Request("V3.ListFiles", cursor, "ok"))
          /\ acc' = AppendFilenames(acc, ListFilesResult(remote.files, cursor))
          /\ IF ListFilesNextPage(remote.files, cursor, remote.stalls) = 0
             THEN /\ Return(acc', ErrNil)
                  /\ UNCHANGED cursor
             ELSE /\ cursor' = ListFilesNextPage(remote.files, cursor, remote.stalls)
                  /\ UNCHANGED <<pc, ret, err>>
    /\ UNCHANGED <<op, args, remote, getComments>>
    /\ UNCHANGED <<metadata, firstCall>>

\* ------------------------------------------------------- GetChangedFiles
\* files(first: 100, after: cursor): the page after the cursor, with its
\* pageInfo.  Cursor 0 is "", cursor i the end-cursor of page i.
ChangedFilesPageIndex(after) == after + 1
\* Mutant: the files are scoped to the commit, and only the first commit ref
\* has files.
ChangedFilesEdgesAtCommit(pages, after) ==
    IF args.commitRef = "abc123"
    THEN [i \in 1..Len(pages[ChangedFilesPageIndex(after)]) |->
            [Path |-> pages[ChangedFilesPageIndex(after)][i]]]
    ELSE <<>>

ChangedFilesEdges(pages, after) ==
    [i \in 1..Len(pages[ChangedFilesPageIndex(after)]) |->
        [Path |-> pages[ChangedFilesPageIndex(after)][i]]]
\* A remote that stalls answers its last page with hasNextPage and the
\* end-cursor the request came with.
ChangedFilesPageInfo(pages, after, stalls) ==
    IF ChangedFilesPageIndex(after) < Len(pages)
    THEN [EndCursor |-> ChangedFilesPageIndex(after), HasNextPage |-> TRUE]
    ELSE IF stalls THEN [EndCursor |-> after, HasNextPage |-> TRUE]
    ELSE [EndCursor |-> ChangedFilesPageIndex(after), HasNextPage |-> FALSE]

\* Mutant: every page overwrites the list instead of extending it.
AppendChangedFilesOverwrites(cfo, fileEdges) ==
    [i \in 1..Len(fileEdges) |-> [Path |-> fileEdges[i].Path]]

\* for _, f := range Edges { cfo = append(cfo, ChangedFileObject{Path: f.Node.Path}) }
AppendChangedFiles(cfo, fileEdges) ==
    cfo \o [i \in 1..Len(fileEdges) |-> [Path |-> fileEdges[i].Path]]

CommitRefs == {"abc123", "def456"}

CallGetChangedFiles ==
    /\ pc = "idle"
    /\ op' = "GetChangedFiles"
    /\ cursor' = 0
    /\ acc' = <<>>
    /\ \E prNumber \in PrNumberStrings, commitRef \in CommitRefs :
          /\ args' = [prNumber |-> prNumber, commitRef |-> commitRef]
          /\ IF ~AtoiOk(prNumber)
             THEN /\ Return(<<>>, ErrAtoi)
                  /\ remote' = NoRemote
             ELSE /\ pc' = "changedFiles"
                  /\ \E pages \in FilePageSets, stalls \in BOOLEAN :
                        remote' = [NoRemote EXCEPT !.files = pages,
                                                   !.stalls = stalls,
                                                   !.pr.Number = Atoi(prNumber)]
                  /\ UNCHANGED <<ret, err>>
    /\ UNCHANGED <<requests, getComments>>
    /\ UNCHANGED <<metadata, firstCall>>

\* One iteration of the loop of GetChangedFiles.
ChangedFilesFetch ==
    /\ pc = "changedFiles"
    /\ Len(requests) <= MaxPages
    /\ \/ \E e \in TransportErrors :
             /\ requests' = Append(requests, Request("V4.Query files", cursor, e))
             /\ Return(FetchError(acc, e).ret, FetchError(acc, e).err)
             /\ UNCHANGED <<cursor, acc>>
       \/ /\ requests' = Append(requests, Request("V4.Query files", cursor, "ok"))
          /\ acc' = AppendChangedFiles(acc, ChangedFilesEdges(remote.files, cursor))
          /\ IF ~ChangedFilesPageInfo(remote.files, cursor, remote.stalls).HasNextPage
             THEN /\ Return(acc', ErrNil)
                  /\ UNCHANGED cursor
             ELSE /\ cursor' = ChangedFilesPageInfo(remote.files, cursor, remote.stalls).EndCursor
                  /\ UNCHANGED <<pc, ret, err>>
    /\ UNCHANGED <<op, args, remote, getComments>>
    /\ UNCHANGED <<metadata, firstCall>>

\* GetChangedFiles is called a second time with the same prNumber and another
\* commitRef while the remote is as it was; what the first call did is kept
\* in firstCall.
CallGetChangedFilesAgain ==
    /\ pc = "done"
    /\ op = "GetChangedFiles"
    /\ ~firstCall.set
    /\ firstCall' = [set |-> TRUE, commitRef |-> args.commitRef,
                     requests |-> requests, ret |-> ret, err |-> err]
    /\ \E commitRef \in CommitRefs \ {args.commitRef} :
          args' = [args EXCEPT !.commitRef = commitRef]
    /\ requests' = <<>>
    /\ cursor' = 0
    /\ acc' = <<>>
    /\ IF ~AtoiOk(args.prNumber)
       THEN Return(<<>>, ErrAtoi)
       ELSE /\ pc' = "changedFiles"
            /\ ret' = <<>>
            /\ err' = ErrNil
    /\ UNCHANGED <<op, remote, getComments, metadata>>

\* ---------------------------------------------------- SearchPullRequests
LabelNames == <<"bug", "wip", "docs", "ci">>
ZeroLabelObject == [Name |-> ""]

\* Node k of the search result: pull request number k, with nCommits commit
\* edges (the remote honours commits(last: 1)) and nLabels label edges.
SearchNode(k, nCommits, nLabels) ==
    [PullRequestObject |-> [Number |-> k, State |-> "OPEN"],
     Reviews |-> [TotalCount |-> k % 3],
     Commits |-> [j \in 1..nCommits |-> [ID |-> 10 * k + j, OID |-> "abc123"]],
     Labels |-> [j \in 1..nLabels |-> [Name |-> LabelNames[j]]]]

\* The remote pages the result at first: $searchFirst nodes per page: every
\* page but the last is full, and an empty result is one empty page.
SearchPageCount(n, first) == IF n = 0 THEN 1 ELSE (n + first - 1) \div first
SearchPagesOf(nodes, first) ==
    [p \in 1..SearchPageCount(Len(nodes), first) |->
        SubSeq(nodes, (p - 1) * first + 1,
               IF p * first < Len(nodes) THEN p * first ELSE Len(nodes))]
SearchResults ==
    { [k \in 1..Len(shape) |-> SearchNode(k, shape[k], nLabels)] :
        shape \in SeqsUpTo(0..commitsLast, MaxSearchNodes), nLabels \in 0..MaxLabels }

\* The cursor argument the search field is sent with.  The field is declared
\* search(query:$searchQuery,first:$searchFirst): it has no "after" argument,
\* and vars["prCursor"] is referenced by nothing in the query, so the search
\* always starts from the empty cursor.
SearchAfterArgument(prCursor) == 0

\* What the remote answers to search(..., after): the nodes of the page after
\* the cursor and the pageInfo of the search.
SearchNodes(pages, after) == pages[after + 1]
SearchPageInfo(pages, after) ==
    [EndCursor |-> after + 1, HasNextPage |-> after + 1 < Len(pages)]

\* The continuation the loop reads is query.Repository.PullRequests.PageInfo,
\* which is no part of the search response: its value is not determined by
\* the search, so it is any PageInfo.
RepositoryPullRequestsPageInfos == [EndCursor : 0..1, HasNextPage : BOOLEAN]

\* labels := make([]LabelObject, len(Edges)); then one append per edge.
SearchLabels(labelEdges) ==
    [i \in 1..Len(labelEdges) |-> ZeroLabelObject] \o labelEdges

\* The records one node contributes: one per commit edge.
SearchNodeRecords(node) ==
    [j \in 1..Len(node.Commits) |->
        [PullRequestObject |-> node.PullRequestObject,
         Tip |-> node.Commits[j],
         ApprovedReviewCount |-> node.Reviews.TotalCount,
         Labels |-> SearchLabels(node.Labels)]]

RECURSIVE AppendSearchNodes(_, _)
AppendSearchNodes(response, nodes) ==
    IF nodes = <<>> THEN response
    ELSE AppendSearchNodes(response \o SearchNodeRecords(Head(nodes)), Tail(nodes))

CallSearchPullRequests ==
    /\ pc = "idle"
    /\ op' = "SearchPullRequests"
    /\ pc' = "search"
    /\ \E nodes \in SearchResults, limit \in 1..MaxLimit :
          /\ args' = [query |-> "is:pr is:open", limit |-> limit]
          /\ remote' = [NoRemote EXCEPT !.search = SearchPagesOf(nodes, limit)]
    /\ cursor' = 0
    /\ acc' = <<>>
    /\ UNCHANGED <<requests, getComments, ret, err>>
    /\ UNCHANGED <<metadata, firstCall>>

\* One iteration of the loop of SearchPullRequests.
SearchFetch ==
    /\ pc = "search"
    /\ Len(requests) < MaxFetch
    /\ \/ \E e \in TransportErrors :
             /\ requests' = Append(requests,
                    Request("V4.Query search", SearchAfterArgument(cursor), e))
             /\ Return(FetchError(acc, e).ret, FetchError(acc, e).err)
             /\ UNCHANGED <<cursor, acc>>
       \/ /\ requests' = Append(requests,
                    Request("V4.Query search", SearchAfterArgument(cursor), "ok"))
          /\ acc' = AppendSearchNodes(acc,
                        SearchNodes(remote.search, SearchAfterArgument(cursor)))
          /\ \E pageInfo \in RepositoryPullRequestsPageInfos :
                IF ~pageInfo.HasNextPage
                THEN /\ Return(acc', ErrNil)
                     /\ UNCHANGED cursor
                ELSE /\ cursor' = pageInfo.EndCursor
                     /\ UNCHANGED <<pc, ret, err>>
    /\ UNCHANGED <<op, args, remote, getComments>>
    /\ UNCHANGED <<metadata, firstCall>>

\* --------------------------------------------------------- GetPullRequest
PullRequestStates == {"OPEN", "CLOSED", "MERGED"}

\* The commit window the remote returns for commits(last: 100): edge i is the
\* commit with node ID i and the given OID (OIDs may repeat).
CommitWindows ==
    { [i \in 1..Len(oids) |-> [ID |-> i, OID |-> oids[i]]] :
        oids \in SeqsUpTo(CommitRefs, MaxCommits) }

\* Mutant: the scan does not stop at a match, so the last match wins.
RECURSIVE ScanCommitsLast(_, _, _)
ScanCommitsLast(commitEdges, commitRef, i) ==
    IF i > Len(commitEdges) THEN 0
    ELSE IF ScanCommitsLast(commitEdges, commitRef, i + 1) # 0
         THEN ScanCommitsLast(commitEdges, commitRef, i + 1)
    ELSE IF commitEdges[i].OID = commitRef THEN i
    ELSE 0

\* for _, c := range Edges { if c.Node.Commit.OID == commitRef { return ... } }
\* The index of the edge the scan returns at, 0 when it runs off the end.
RECURSIVE ScanCommits(_, _, _)
ScanCommits(commitEdges, commitRef, i) ==
    IF i > Len(commitEdges) THEN 0
    ELSE IF commitEdges[i].OID = commitRef THEN i
    ELSE ScanCommits(commitEdges, commitRef, i + 1)

\* Mutant: the record carries the approvals and labels the remote holds.
PullRequestAtWithReviews(pullRequestObject, commit) ==
    [PullRequestObject |-> pullRequestObject,
     Tip |-> commit,
     ApprovedReviewCount |-> remote.approvals,
     Labels |-> remote.labels]

\* &PullRequest{PullRequestObject: ..., Tip: c.Node.Commit}: the other fields
\* keep their zero values.
PullRequestAt(pullRequestObject, commit) ==
    [PullRequestObject |-> pullRequestObject,
     Tip |-> commit,
     ApprovedReviewCount |-> 0,
     Labels |-> <<>>]

\* Mutant: without a match the call returns the pull request with an empty
\* tip and no error.
GetPullRequestResultNoError(pullRequestObject, commitEdges, commitRef) ==
    IF ScanCommits(commitEdges, commitRef, 1) # 0
    THEN [ret |-> <<PullRequestAt(pullRequestObject,
                        commitEdges[ScanCommits(commitEdges, commitRef, 1)])>>,
          err |-> ErrNil]
    ELSE [ret |-> <<PullRequestAt(pullRequestObject, [ID |-> 0, OID |-> ""])>>,
          err |-> ErrNil]

\* The return of GetPullRequest after a successful query.
GetPullRequestResult(pullRequestObject, commitEdges, commitRef) ==
    IF ScanCommits(commitEdges, commitRef, 1) # 0
    THEN [ret |-> <<PullRequestAt(pullRequestObject,
                        commitEdges[ScanCommits(commitEdges, commitRef, 1)])>>,
          err |-> ErrNil]
    ELSE [ret |-> <<>>, err |-> ErrCommitRef]

CallGetPullRequest ==
    /\ pc = "idle"
    /\ op' = "GetPullRequest"
    /\ \E prNumber \in PrNumberStrings, commitRef \in CommitRefs :
          /\ args' = [prNumber |-> prNumber, commitRef |-> commitRef]
          /\ IF ~AtoiOk(prNumber)
             THEN /\ Return(<<>>, ErrAtoi)
                  /\ remote' = NoRemote
             ELSE /\ pc' = "getPullRequest"
                  /\ \E window \in CommitWindows, state \in PullRequestStates,
                        approvals \in {0, 2}, labels \in {<<>>, <<[Name |-> "bug"]>>} :
                        remote' = [NoRemote EXCEPT
                                      !.pr = [Number |-> Atoi(prNumber), State |-> state,
                                              UpdatedAt |-> "2019-01-01T00:00:00Z"],
                                      !.approvals = approvals,
                                      !.labels = labels,
                                      !.commits = window]
                  /\ UNCHANGED <<ret, err>>
    /\ UNCHANGED <<requests, cursor, acc, getComments>>
    /\ UNCHANGED <<metadata, firstCall>>

\* The single query of GetPullRequest and the scan of its answer.
GetPullRequestFetch ==
    /\ pc = "getPullRequest"
    /\ \/ \E e \in TransportErrors :
             /\ requests' = Append(requests, Request("V4.Query pullRequest", 100, e))
             /\ Return(<<>>, e)
       \/ /\ requests' = Append(requests, Request("V4.Query pullRequest", 100, "ok"))
          /\ Return(GetPullRequestResult(remote.pr, remote.commits, args.commitRef).ret,
                    GetPullRequestResult(remote.pr, remote.commits, args.commitRef).err)
    /\ UNCHANGED <<op, args, remote, cursor, acc, getComments>>
    /\ UNCHANGED <<metadata, firstCall>>

\* ------------------------------------------------- DeletePreviousComments
Logins == {"ci-bot", "alice"}

\* The comments the remote returns for comments(last: 100): edge i is the
\* comment with database id i by the given author.
CommentEdges ==
    { [i \in 1..Len(authors) |-> [DatabaseId |-> i, Author |-> [Login |-> authors[i]]]] :
        authors \in SeqsUpTo(Logins, MaxComments) }

\* Mutant: the author is not compared, every fetched comment is deleted.
IsOwnCommentAlways(e, viewerLogin) == TRUE

\* if e.Node.Author.Login == getComments.Viewer.Login
IsOwnComment(e, viewerLogin) == e.Author.Login = viewerLogin

\* The index of the first edge at or after i that the loop deletes, 0 when
\* the loop runs off the end.
RECURSIVE NextDeletion(_, _, _)
NextDeletion(commentEdges, viewerLogin, i) ==
    IF i > Len(commentEdges) THEN 0
    ELSE IF IsOwnComment(commentEdges[i], viewerLogin) THEN i
    ELSE NextDeletion(commentEdges, viewerLogin, i + 1)

\* Mutant: the error of a deletion is dropped and the loop goes on.
AfterDeletionIgnoresError(i, outcome) == i + 1

\* Where the loop goes after the deletion of edge i came back with outcome:
\* 0 when it returns the error, the index after i otherwise.
AfterDeletion(i, outcome) == IF outcome # "ok" THEN 0 ELSE i + 1

\* The remote's comments after comment id is deleted.
RemoveComment(comments, id) == SelectSeq(comments, LAMBDA c : c.DatabaseId # id)

CallDeletePreviousComments ==
    /\ pc = "idle"
    /\ op' = "DeletePreviousComments"
    /\ \E prNumber \in PrNumberStrings :
          /\ args' = [prNumber |-> prNumber]
          /\ IF ~AtoiOk(prNumber)
             THEN /\ Return(<<>>, ErrAtoi)
                  /\ remote' = NoRemote
             ELSE /\ pc' = "getComments"
                  /\ \E comments \in CommentEdges, viewer \in Logins :
                        remote' = [NoRemote EXCEPT !.pr.Number = Atoi(prNumber),
                                                   !.viewer = viewer,
                                                   !.comments = comments]
                  /\ UNCHANGED <<ret, err>>
    /\ UNCHANGED <<requests, cursor, acc, getComments>>
    /\ UNCHANGED <<metadata, firstCall>>

\* The getComments query, and the loop up to its first deletion.
GetCommentsFetch ==
    /\ pc = "getComments"
    /\ \/ \E e \in TransportErrors :
             /\ requests' = Append(requests, Request("V4.Query comments", 100, e))
             /\ Return(<<>>, e)
             /\ UNCHANGED getComments
       \/ /\ requests' = Append(requests, Request("V4.Query comments", 100, "ok"))
          /\ getComments' = [Viewer |-> remote.viewer, Edges |-> remote.comments,
                             idx |-> NextDeletion(remote.comments, remote.viewer, 1)]
          /\ IF getComments'.idx = 0
             THEN Return(<<>>, ErrNil)
             ELSE /\ pc' = "deleteComment"
                  /\ UNCHANGED <<ret, err>>
    /\ UNCHANGED <<op, args, remote, cursor, acc>>
    /\ UNCHANGED <<metadata, firstCall>>

\* V3.Issues.DeleteComment for the edge the loop stands at, and the loop up
\* to its next deletion.
DeleteComment ==
    /\ pc = "deleteComment"
    /\ \E outcome \in TransportErrors \cup {"ok"} :
          LET id == getComments.Edges[getComments.idx].DatabaseId
              resume == AfterDeletion(getComments.idx, outcome)
              next == IF resume = 0 THEN 0
                      ELSE NextDeletion(getComments.Edges, getComments.Viewer, resume)
          IN /\ requests' = Append(requests, Request("V3.DeleteComment", id, outcome))
             /\ remote' = IF outcome = "ok"
                          THEN [remote EXCEPT !.comments = RemoveComment(@, id)]
                          ELSE remote
             /\ IF resume = 0
                THEN /\ Return(<<>>, outcome)
                     /\ UNCHANGED getComments
                ELSE IF next = 0
                THEN /\ Return(<<>>, ErrNil)
                     /\ getComments' = [getComments EXCEPT !.idx = Len(getComments.Edges) + 1]
                ELSE /\ getComments' = [getComments EXCEPT !.idx = next]
                     /\ UNCHANGED <<pc, ret, err>>
    /\ UNCHANGED <<op, args, cursor, acc>>
    /\ UNCHANGED <<metadata, firstCall>>

\* ------------------------------------------------------------------ Source
RepoChars == {"a", "/"}
RepositoryStrings == SeqsUpTo(RepoChars, MaxRepoLen)

\* An endpoint override: unset, a URL, and a string url.Parse rejects
\* ("missing protocol scheme").
Endpoints == {"", "https://ghe.example.com/api", ":bad"}
UrlParseOk(endpoint) == endpoint # ":bad"

\* Entries tried in Source.States.
StateLiterals == {"OPEN", "CLOSED", "MERGED", "DRAFT", "open"}

MakeSource(repository, token, v3, v4, skip, states) ==
    [Repository |-> repository, AccessToken |-> token, V3Endpoint |-> v3,
     V4Endpoint |-> v4, SkipSSLVerification |-> skip, States |-> states]

\* ---------------------------------------------------------- Source.Validate
\* The loop over s.States from entry i on.
RECURSIVE ValidateStates(_, _)
ValidateStates(states, i) ==
    IF i > Len(states) THEN ErrNil
    ELSE IF states[i] \in {"OPEN", "CLOSED", "MERGED"} THEN ValidateStates(states, i + 1)
    ELSE ErrState(states[i])

\* Mutant: the check for v4_endpoint set without v3_endpoint is missing.
ValidateOneSided(s) ==
    IF s.AccessToken = "" THEN ErrToken
    ELSE IF s.Repository = <<>> THEN ErrRepository
    ELSE IF s.V3Endpoint # "" /\ s.V4Endpoint = "" THEN ErrV4Missing
    ELSE ValidateStates(s.States, 1)

\* Mutant: the repository is checked before the token.
ValidateRepositoryFirst(s) ==
    IF s.Repository = <<>> THEN ErrRepository
    ELSE IF s.AccessToken = "" THEN ErrToken
    ELSE IF s.V3Endpoint # "" /\ s.V4Endpoint = "" THEN ErrV4Missing
    ELSE IF s.V4Endpoint # "" /\ s.V3Endpoint = "" THEN ErrV3Missing
    ELSE ValidateStates(s.States, 1)

Validate(s) ==
    IF s.AccessToken = "" THEN ErrToken
    ELSE IF s.Repository = <<>> THEN ErrRepository
    ELSE IF s.V3Endpoint # "" /\ s.V4Endpoint = "" THEN ErrV4Missing
    ELSE IF s.V4Endpoint # "" /\ s.V3Endpoint = "" THEN ErrV3Missing
    ELSE ValidateStates(s.States, 1)

CallValidate ==
    /\ pc = "idle"
    /\ op' = "Validate"
    /\ \E repository \in {<<>>, <<"a", "/", "a">>}, token \in {"", "token"},
          v3 \in Endpoints, v4 \in Endpoints,
          states \in SeqsUpTo(StateLiterals, MaxStates) :
          /\ args' = [s |-> MakeSource(repository, token, v3, v4, FALSE, states)]
          /\ Return(<<>>, Validate(args'.s))
    /\ UNCHANGED <<remote, requests, cursor, acc, getComments>>
    /\ UNCHANGED <<metadata, firstCall>>

\* -------------------------------------------------------- parseRepository
\* strings.Split(s, "/"): the pieces between the slashes, empty ones included;
\* a string without a slash is its only piece.
RECURSIVE Split(_)
Split(s) ==
    IF \A i \in 1..Len(s) : s[i] # "/" THEN <<s>>
    ELSE LET i == CHOOSE k \in 1..Len(s) : s[k] = "/" /\ \A j \in 1..(k - 1) : s[j] # "/"
         IN <<SubSeq(s, 1, i - 1)>> \o Split(SubSeq(s, i + 1, Len(s)))

parseRepository(s) ==
    IF Len(Split(s)) # 2
    THEN [owner |-> <<>>, repository |-> <<>>, err |-> ErrMalformed]
    ELSE [owner |-> Split(s)[1], repository |-> Split(s)[2], err |-> ErrNil]

\* -------------------------------------------------------- NewGithubClient
\* The clients are known by the endpoint they point at ("" is the public
\* service) and by whether their transport skips certificate verification.
NewGithubClient(s) ==
    IF parseRepository(s.Repository).err # ErrNil
    THEN [ret |-> <<>>, err |-> parseRepository(s.Repository).err]
    ELSE IF s.V3Endpoint # "" /\ ~UrlParseOk(s.V3Endpoint)
    THEN [ret |-> <<>>, err |-> ErrV3Endpoint]
    ELSE IF s.V4Endpoint # "" /\ ~UrlParseOk(s.V4Endpoint)
    THEN [ret |-> <<>>, err |-> ErrV4Endpoint]
    ELSE [ret |-> <<[V3 |-> s.V3Endpoint, V4 |-> s.V4Endpoint,
                     InsecureSkipVerify |-> s.SkipSSLVerification,
                     Owner |-> parseRepository(s.Repository).owner,
                     Repository |-> parseRepository(s.Repository).repository]>>,
          err |-> ErrNil]

CallNewGithubClient ==
    /\ pc = "idle"
    /\ op' = "NewGithubClient"
    /\ \E repository \in RepositoryStrings, v3 \in Endpoints, v4 \in Endpoints,
          skip \in BOOLEAN :
          /\ args' = [s |-> MakeSource(repository, "token", v3, v4, skip, <<>>)]
          /\ Return(NewGithubClient(args'.s).ret, NewGithubClient(args'.s).err)
    /\ UNCHANGED <<remote, requests, cursor, acc, getComments>>
    /\ UNCHANGED <<metadata, firstCall>>

\* --------------------------------------------------------------- NewVersion
\* strconv.Itoa: the decimal digits of n, most significant first, after a
\* "-" when n is negative.
RECURSIVE ItoaDigits(_)
ItoaDigits(n) ==
    IF n < 10 THEN <<DigitChars[n + 1]>>
    ELSE ItoaDigits(n \div 10) \o <<DigitChars[(n % 10) + 1]>>

\* Mutant: the digits come out least significant first.
RECURSIVE ItoaDigitsReversed(_)
ItoaDigitsReversed(n) ==
    IF n < 10 THEN <<DigitChars[n + 1]>>
    ELSE <<DigitChars[(n % 10) + 1]>> \o ItoaDigitsReversed(n \div 10)
ItoaReversed(n) ==
    IF n < 0 THEN <<"-">> \o ItoaDigitsReversed(0 - n) ELSE ItoaDigitsReversed(n)

Itoa(n) == IF n < 0 THEN <<"-">> \o ItoaDigits(0 - n) ELSE ItoaDigits(n)

\* Mutant: the state is left out of the Version.
NewVersionWithoutState(p) ==
    [PR |-> Itoa(p.PullRequestObject.Number),
     Commit |-> p.Tip.OID,
     UpdatedTime |-> p.PullRequestObject.UpdatedAt,
     ApprovedReviewCount |-> Itoa(p.ApprovedReviewCount),
     State |-> ""]

NewVersion(p) ==
    [PR |-> Itoa(p.PullRequestObject.Number),
     Commit |-> p.Tip.OID,
     UpdatedTime |-> p.PullRequestObject.UpdatedAt,
     ApprovedReviewCount |-> Itoa(p.ApprovedReviewCount),
     State |-> p.PullRequestObject.State]

\* The fields of a PullRequest that NewVersion does not read, drawn together.
OtherFields ==
    { [Title |-> "Fix typo", IsDraft |-> FALSE, HeadRefName |-> "fix", Message |-> "fix",
       Labels |-> <<>>],
      [Title |-> "Fix typo", IsDraft |-> TRUE, HeadRefName |-> "fix", Message |-> "wip",
       Labels |-> <<[Name |-> "wip"]>>],
      [Title |-> "Add docs", IsDraft |-> FALSE, HeadRefName |-> "docs", Message |-> "fix",
       Labels |-> <<[Name |-> "docs"], [Name |-> "bug"]>>] }

MakePullRequest(number, oid, updatedAt, approved, state, other) ==
    [PullRequestObject |->
        [Number |-> number, Title |-> other.Title, HeadRefName |-> other.HeadRefName,
         IsDraft |-> other.IsDraft, State |-> state, UpdatedAt |-> updatedAt],
     Tip |-> [ID |-> 1, OID |-> oid, Message |-> other.Message],
     ApprovedReviewCount |-> approved,
     Labels |-> other.Labels]

PullRequests ==
    { MakePullRequest(number, oid, updatedAt, approved, state, other) :
        number \in {0, 7, 42}, oid \in CommitRefs,
        updatedAt \in {"2019-01-01T00:00:00Z", "2019-06-30T12:00:00Z"},
        approved \in {0, 2}, state \in {"OPEN", "MERGED"}, other \in OtherFields }

\* NewVersion applied to two pull requests.
CallNewVersion ==
    /\ pc = "idle"
    /\ op' = "NewVersion"
    /\ \E p1 \in PullRequests, p2 \in PullRequests :
          /\ args' = [p1 |-> p1, p2 |-> p2]
          /\ Return(<<NewVersion(p1), NewVersion(p2)>>, ErrNil)
    /\ UNCHANGED <<remote, requests, cursor, acc, getComments, metadata, firstCall>>

\* ------------------------------------------------------ UpdateCommitStatus
\* The string arguments of UpdateCommitStatus are sequences of pieces: a
\* piece is "/" or a text without a slash; "" is <<>>.

\* Mutant: the default replaces the argument whether it is empty or not.
DefaultAlways(value, default) == default

\* if value == "" { value = default }
Default(value, default) == IF value = <<>> THEN default ELSE value

\* strings.Join(elems, "/")
RECURSIVE JoinSlash(_)
JoinSlash(elems) ==
    IF elems = <<>> THEN <<>>
    ELSE IF Len(elems) = 1 THEN elems[1]
    ELSE elems[1] \o <<"/">> \o JoinSlash(Tail(elems))

\* path.Clean of a path without "." and ".." elements: runs of slashes become
\* one slash, a trailing slash goes unless the path is "/", "" becomes ".".
RECURSIVE CollapseSlashes(_)
CollapseSlashes(path) ==
    IF Len(path) < 2 THEN path
    ELSE IF path[1] = "/" /\ path[2] = "/" THEN CollapseSlashes(Tail(path))
    ELSE <<path[1]>> \o CollapseSlashes(Tail(path))
PathClean(path) ==
    LET collapsed == CollapseSlashes(path)
    IN IF collapsed = <<>> THEN <<".">>
       ELSE IF Len(collapsed) > 1 /\ collapsed[Len(collapsed)] = "/"
            THEN SubSeq(collapsed, 1, Len(collapsed) - 1)
       ELSE collapsed

\* path.Join(a, b): the non-empty elements joined by "/", cleaned; "" when
\* both are empty.
PathJoin(a, b) ==
    LET elems == SelectSeq(<<a, b>>, LAMBDA e : e # <<>>)
    IN IF elems = <<>> THEN <<>> ELSE PathClean(JoinSlash(elems))

\* strings.ToLower on the status values tried.
StatusValues == {"SUCCESS", "Failure", "pending"}
ToLower(status) ==
    CASE status = "SUCCESS" -> "success"
      [] status = "Failure" -> "failure"
      [] status = "pending" -> "pending"

\* os.Getenv("ATC_EXTERNAL_URL"), os.Getenv("BUILD_ID"): unset is "".
Environments ==
    { [ATC_EXTERNAL_URL |-> <<"https://ci.example.com">>, BUILD_ID |-> <<"123">>],
      [ATC_EXTERNAL_URL |-> <<>>, BUILD_ID |-> <<>>] }

\* The github.RepoStatus sent for the arguments a under the environment env.
RepoStatus(a, env) ==
    [State |-> ToLower(a.status),
     TargetURL |-> Default(a.targetURL,
                      JoinSlash(<<env.ATC_EXTERNAL_URL, <<"builds">>, env.BUILD_ID>>)),
     Description |-> Default(a.description, <<"Concourse CI build ", a.status>>),
     Context |-> PathJoin(Default(a.baseContext, <<"concourse-ci">>),
                          Default(a.statusContext, <<"status">>))]

CallUpdateCommitStatus ==
    /\ pc = "idle"
    /\ op' = "UpdateCommitStatus"
    /\ pc' = "createStatus"
    /\ \E commitRef \in CommitRefs,
          baseContext \in {<<>>, <<"ci">>, <<"ci", "/">>},
          statusContext \in {<<>>, <<"unit">>, <<"/", "unit">>},
          status \in StatusValues,
          targetURL \in {<<>>, <<"https:", "/", "/", "x.example", "/", "7">>},
          description \in {<<>>, <<"unit tests passed">>},
          env \in Environments :
          args' = [commitRef |-> commitRef, baseContext |-> baseContext,
                   statusContext |-> statusContext, status |-> status,
                   targetURL |-> targetURL, description |-> description, env |-> env]
    /\ UNCHANGED <<remote, requests, cursor, acc, getComments, ret, err, metadata, firstCall>>

\* V3.Repositories.CreateStatus with the status built from the arguments.
CreateStatus ==
    /\ pc = "createStatus"
    /\ \E outcome \in TransportErrors \cup {"ok"} :
          /\ requests' = Append(requests,
                Request("V3.CreateStatus",
                        [ref |-> args.commitRef, status |-> RepoStatus(args, args.env)],
                        outcome))
          /\ Return(<<>>, IF outcome = "ok" THEN ErrNil ELSE outcome)
    /\ UNCHANGED <<op, args, remote, cursor, acc, getComments, metadata, firstCall>>

\* ------------------------------------------------------------- PostComment
CallPostComment ==
    /\ pc = "idle"
    /\ op' = "PostComment"
    /\ \E prNumber \in PrNumberStrings, comment \in {"build passed", ""} :
          /\ args' = [prNumber |-> prNumber, comment |-> comment]
          /\ IF ~AtoiOk(prNumber)
             THEN Return(<<>>, ErrAtoi)
             ELSE /\ pc' = "createComment"
                  /\ UNCHANGED <<ret, err>>
    /\ UNCHANGED <<remote, requests, cursor, acc, getComments, metadata, firstCall>>

\* V3.Issues.CreateComment; its error is the return of the call.
CreateComment ==
    /\ pc = "createComment"
    /\ \E outcome \in TransportErrors \cup {"ok"} :
          /\ requests' = Append(requests,
                Request("V3.CreateComment",
                        [pr |-> Atoi(args.prNumber), Body |-> args.comment], outcome))
          /\ Return(<<>>, IF outcome = "ok" THEN ErrNil ELSE outcome)
    /\ UNCHANGED <<op, args, remote, cursor, acc, getComments, metadata, firstCall>>

\* ---------------------------------------------------------------- Metadata
MetadataNames == {"pr", "url"}
MetadataValues == {"1", "2"}
MetadataField(name, value) == [Name |-> name, Value |-> value]

\* Mutant: a field of the same name is overwritten in place.
AddOverwrites(m, name, value) ==
    IF \E i \in 1..Len(m) : m[i].Name = name
    THEN [i \in 1..Len(m) |->
            IF m[i].Name = name THEN MetadataField(name, value) ELSE m[i]]
    ELSE Append(m, MetadataField(name, value))

\* Metadata.Add: *m = append(*m, &MetadataField{Name: name, Value: value}).
Add(m, name, value) == Append(m, MetadataField(name, value))

\* var metadata Metadata: the nil slice a caller starts from.
NewMetadata ==
    /\ pc = "idle"
    /\ pc' = "metadata"
    /\ op' = "Metadata"
    /\ metadata' = <<>>
    /\ UNCHANGED <<args, remote, requests, cursor, acc, getComments, ret, err, firstCall>>

MetadataAdd ==
    /\ pc = "metadata"
    /\ Len(metadata) < MaxMetadata
    /\ \E name \in MetadataNames, value \in MetadataValues :
          /\ args' = [name |-> name, value |-> value]
          /\ metadata' = Add(metadata, name, value)
    /\ UNCHANGED <<pc, op, remote, requests, cursor, acc, getComments, ret, err, firstCall>>

\* The caller hands the metadata on as it stands.
MetadataEmit ==
    /\ pc = "metadata"
    /\ Return(metadata, ErrNil)
    /\ UNCHANGED <<op, args, remote, requests, cursor, acc, getComments, metadata, firstCall>>

\* The call has returned; the client is ready for the next call.
Finish ==
    /\ pc = "done"
    /\ pc' = "idle"
    /\ op' = "none"
    /\ args' = NoArgs
    /\ remote' = NoRemote
    /\ requests' = <<>>
    /\ cursor' = 0
    /\ acc' = <<>>
    /\ getComments' = NoComments
    /\ ret' = <<>>
    /\ err' = ErrNil
    /\ metadata' = <<>>
    /\ firstCall' = NoFirst

Next ==
    \/ CallListModifiedFiles
    \/ ListFilesFetch
    \/ CallGetChangedFiles
    \/ ChangedFilesFetch
    \/ CallGetChangedFilesAgain
    \/ CallSearchPullRequests
    \/ SearchFetch
    \/ CallGetPullRequest
    \/ GetPullRequestFetch
    \/ CallDeletePreviousComments
    \/ GetCommentsFetch
    \/ DeleteComment
    \/ CallValidate
    \/ CallNewGithubClient
    \/ CallNewVersion
    \/ CallUpdateCommitStatus
    \/ CreateStatus
    \/ CallPostComment
    \/ CreateComment
    \/ NewMetadata
    \/ MetadataAdd
    \/ MetadataEmit
    \/ Finish

Spec == Init /\ [][Next]_vars

\* ================================================================ claims
Done(o) == pc = "done" /\ op = o
Succeeded(o) == Done(o) /\ err = ErrNil

RECURSIVE Flatten(_)
Flatten(pages) == IF pages = <<>> THEN <<>> ELSE Head(pages) \o Flatten(Tail(pages))

IsTransportError(e) == e \in TransportErrors

\* C1: when every fetch succeeds, ListModifiedFiles and GetChangedFiles return
\* the items of all the remote's pages, each once, in page order and
\* within-page order.
C1_PagesConcatenated ==
    /\ Succeeded("ListModifiedFiles") => ret = Flatten(remote.files)
    /\ Succeeded("GetChangedFiles") =>
          /\ Len(ret) = Len(Flatten(remote.files))
          /\ \A i \in 1..Len(ret) : ret[i] = [Path |-> Flatten(remote.files)[i]]

\* Three pages of two files each listed without an error: six files.
C1_Witness ==
    /\ Succeeded("ListModifiedFiles")
    /\ Len(remote.files) = 3
    /\ \A p \in 1..3 : Len(remote.files[p]) = 2
    /\ Len(ret) = 6
    /\ Len(requests) = 3

\* C2 (as claimed): SearchPullRequests fetches every page of the search, each
\* fetch after the first with the search cursor at the previous page's
\* end-cursor, and returns the records of the nodes of all pages.
C2_SearchExhaustsPages ==
    Succeeded("SearchPullRequests") =>
        /\ Len(requests) = Len(remote.search)
        /\ \A i \in 1..Len(requests) :
              requests[i].arg =
                 (IF i = 1 THEN 0 ELSE SearchPageInfo(remote.search, i - 2).EndCursor)
        /\ ret = AppendSearchNodes(<<>>, Flatten(remote.search))

\* The number of nodes the remote returned over the successful fetches.
RECURSIVE NodesReturned(_)
NodesReturned(reqs) ==
    IF reqs = <<>> THEN 0
    ELSE NodesReturned(Tail(reqs))
         + (IF Head(reqs).outcome = "ok"
            THEN Len(SearchNodes(remote.search, Head(reqs).arg)) ELSE 0)

\* C3 (as claimed): SearchPullRequests returns exactly one PullRequest per
\* node the search returned.
C3_OneRecordPerNode ==
    Succeeded("SearchPullRequests") => Len(ret) = NodesReturned(requests)

\* C8: in a paginated call a failed fetch is the last request of the call, and
\* the call returns that fetch's error with a nil result.
PaginatedOps == {"SearchPullRequests", "ListModifiedFiles", "GetChangedFiles"}
C8_FirstFailureEndsCall ==
    op \in PaginatedOps =>
        \A i \in 1..Len(requests) :
            requests[i].outcome # "ok" =>
                /\ i = Len(requests)
                /\ pc = "done"
                /\ err = requests[i].outcome
                /\ ret = <<>>

\* The second page fetch of GetChangedFiles fails after a first page with
\* files was accumulated.
C8_Witness ==
    /\ Done("GetChangedFiles")
    /\ Len(requests) = 2
    /\ requests[1].outcome = "ok"
    /\ IsTransportError(requests[2].outcome)
    /\ acc # <<>>
    /\ ret = <<>>
    /\ err = requests[2].outcome

\* The first edge of the window whose OID is the ref, 0 when there is none.
HasCommit(window, ref) == \E i \in 1..Len(window) : window[i].OID = ref
FirstCommit(window, ref) ==
    CHOOSE i \in 1..Len(window) :
        window[i].OID = ref /\ \A j \in 1..(i - 1) : window[j].OID # ref
QueryAnswered == requests # <<>> /\ requests[1].outcome = "ok"

\* C4: when the window holds the ref, GetPullRequest returns the pull request
\* whose Tip is the first edge of the window with that OID.
C4_FirstMatchIsTip ==
    (Done("GetPullRequest") /\ QueryAnswered /\ HasCommit(remote.commits, args.commitRef)) =>
        /\ err = ErrNil
        /\ Len(ret) = 1
        /\ ret[1].PullRequestObject = remote.pr
        /\ ret[1].Tip = remote.commits[FirstCommit(remote.commits, args.commitRef)]

\* The ref is the OID of the second and of the third edge, not of the first:
\* the Tip returned is the second edge.
C4_Witness ==
    /\ Done("GetPullRequest")
    /\ Len(remote.commits) = 3
    /\ remote.commits[1].OID # args.commitRef
    /\ remote.commits[2].OID = args.commitRef
    /\ remote.commits[3].OID = args.commitRef
    /\ Len(ret) = 1
    /\ ret[1].Tip.ID = 2

\* C5: GetPullRequest issues a single query; when no edge of the window has
\* the ref it fails with the commit-ref error and a nil PullRequest, and it
\* returns a PullRequest only when an edge has the ref.
C5_MissingRefFails ==
    op = "GetPullRequest" =>
        /\ Len(requests) <= 1
        /\ (pc = "done" /\ QueryAnswered /\ ~HasCommit(remote.commits, args.commitRef)) =>
              (err = ErrCommitRef /\ ret = <<>>)
        /\ (pc = "done" /\ ret # <<>>) =>
              (err = ErrNil /\ QueryAnswered /\ HasCommit(remote.commits, args.commitRef))

\* A full window without the ref: the call fails with the commit-ref error.
C5_Witness ==
    /\ Done("GetPullRequest")
    /\ QueryAnswered
    /\ Len(remote.commits) = MaxCommits
    /\ ~HasCommit(remote.commits, args.commitRef)
    /\ err = ErrCommitRef
    /\ ret = <<>>

\* The database ids the call asked the remote to delete, in order.
DeletionRequests == SelectSeq(requests, LAMBDA r : r.api = "V3.DeleteComment")
DeletionIds == [i \in 1..Len(DeletionRequests) |-> DeletionRequests[i].arg]
OwnComments ==
    SelectSeq(getComments.Edges, LAMBDA e : e.Author.Login = remote.viewer)

\* C6: no deletion is ever attempted for a comment of another author, and a
\* call whose deletions all succeed has attempted exactly the fetched
\* comments of the viewer, once each, in the order fetched.
C6_DeletesOwnCommentsOnly ==
    op = "DeletePreviousComments" =>
        /\ \A i \in 1..Len(DeletionIds) :
              \E k \in 1..Len(getComments.Edges) :
                  /\ getComments.Edges[k].DatabaseId = DeletionIds[i]
                  /\ getComments.Edges[k].Author.Login = remote.viewer
        /\ (pc = "done" /\ err = ErrNil /\ QueryAnswered) =>
              DeletionIds = [i \in 1..Len(OwnComments) |-> OwnComments[i].DatabaseId]

\* Three comments, the first and the third by the viewer: two deletions.
C6_Witness ==
    /\ Succeeded("DeletePreviousComments")
    /\ Len(getComments.Edges) = 3
    /\ getComments.Edges[1].Author.Login = remote.viewer
    /\ getComments.Edges[2].Author.Login # remote.viewer
    /\ getComments.Edges[3].Author.Login = remote.viewer
    /\ DeletionIds = <<1, 3>>

\* The ids whose deletion succeeded.
DeletedIds == { requests[i].arg : i \in { k \in 1..Len(requests) :
                    requests[k].api = "V3.DeleteComment" /\ requests[k].outcome = "ok" } }

\* C7: a failed deletion is the last request of the call, which returns its
\* error; the remote then holds the fetched comments less those deleted
\* before the failure.
C7_FailedDeletionEndsCall ==
    (op = "DeletePreviousComments" /\ QueryAnswered) =>
        /\ \A i \in 2..Len(requests) :
              requests[i].outcome # "ok" =>
                  /\ i = Len(requests)
                  /\ pc = "done"
                  /\ err = requests[i].outcome
        /\ getComments.Edges # <<>> =>
              remote.comments =
                  SelectSeq(getComments.Edges, LAMBDA e : e.DatabaseId \notin DeletedIds)

\* Three comments by the viewer: the first is deleted, the deletion of the
\* second fails, the third is never asked for and stays.
C7_Witness ==
    /\ Done("DeletePreviousComments")
    /\ Len(OwnComments) = 3
    /\ Len(requests) = 3
    /\ requests[2].outcome = "ok"
    /\ IsTransportError(requests[3].outcome)
    /\ err = requests[3].outcome
    /\ DeletionIds = <<1, 2>>
    /\ Len(remote.comments) = 2

\* The identifier is two non-empty pieces around a single slash.
TwoNonEmptyParts(repository) ==
    /\ Len(Split(repository)) = 2
    /\ Split(repository)[1] # <<>>
    /\ Split(repository)[2] # <<>>

\* C9 (as claimed): NewGithubClient yields a client only for an identifier of
\* two non-empty parts, with these as owner and name, and fails every other
\* identifier with the malformed-repository error and no client.
C9_TwoNonEmptyParts ==
    Done("NewGithubClient") =>
        /\ ret # <<>> =>
              /\ TwoNonEmptyParts(args.s.Repository)
              /\ ret[1].Owner = Split(args.s.Repository)[1]
              /\ ret[1].Repository = Split(args.s.Repository)[2]
        /\ ~TwoNonEmptyParts(args.s.Repository) => (err = ErrMalformed /\ ret = <<>>)

\* C10: Validate succeeds exactly for the Sources with a token, a repository,
\* both or neither endpoint, and only OPEN, CLOSED or MERGED in States.
C10_ValidateRules ==
    Done("Validate") =>
        (err = ErrNil <=>
            /\ args.s.AccessToken # ""
            /\ args.s.Repository # <<>>
            /\ (args.s.V3Endpoint = "" <=> args.s.V4Endpoint = "")
            /\ \A i \in 1..Len(args.s.States) :
                  args.s.States[i] \in {"OPEN", "CLOSED", "MERGED"})

\* A Source that breaks only the states rule, in its last entry, fails.
C10_Witness ==
    /\ Done("Validate")
    /\ args.s.AccessToken # ""
    /\ args.s.Repository # <<>>
    /\ args.s.V3Endpoint # ""
    /\ args.s.V4Endpoint # ""
    /\ Len(args.s.States) = 2
    /\ args.s.States[1] = "MERGED"
    /\ args.s.States[2] = "open"
    /\ err = ErrState("open")

\* s is the decimal string of n: digits only after an optional "-", no
\* leading zero, and of value n.
IsDecimalStringOf(s, n) ==
    /\ AtoiOk(s)
    /\ Atoi(s) = n
    /\ s[1] # "+"
    /\ (Len(AtoiDigits(s)) > 1 => AtoiDigits(s)[1] # "0")
    /\ (n >= 0 => s[1] # "-")

\* C11: NewVersion gives PR and ApprovedReviewCount as the decimal strings of
\* the numbers and copies Tip.OID, UpdatedAt and State; it returns no error.
C11_NewVersionMapping ==
    Done("NewVersion") =>
        /\ err = ErrNil
        /\ IsDecimalStringOf(ret[1].PR, args.p1.PullRequestObject.Number)
        /\ ret[1].Commit = args.p1.Tip.OID
        /\ ret[1].UpdatedTime = args.p1.PullRequestObject.UpdatedAt
        /\ IsDecimalStringOf(ret[1].ApprovedReviewCount, args.p1.ApprovedReviewCount)
        /\ ret[1].State = args.p1.PullRequestObject.State
        /\ DOMAIN ret[1] = {"PR", "Commit", "UpdatedTime", "ApprovedReviewCount", "State"}

\* Number 42, OID "abc123", 2 approvals, OPEN give PR "42", Commit "abc123",
\* ApprovedReviewCount "2", State OPEN.
C11_Witness ==
    /\ Done("NewVersion")
    /\ args.p1.PullRequestObject.Number = 42
    /\ args.p1.Tip.OID = "abc123"
    /\ args.p1.ApprovedReviewCount = 2
    /\ args.p1.PullRequestObject.State = "OPEN"
    /\ ret[1].PR = <<"4", "2">>
    /\ ret[1].Commit = "abc123"
    /\ ret[1].ApprovedReviewCount = <<"2">>
    /\ ret[1].State = "OPEN"

SameFiveFields(p1, p2) ==
    /\ p1.PullRequestObject.Number = p2.PullRequestObject.Number
    /\ p1.Tip.OID = p2.Tip.OID
    /\ p1.PullRequestObject.UpdatedAt = p2.PullRequestObject.UpdatedAt
    /\ p1.ApprovedReviewCount = p2.ApprovedReviewCount
    /\ p1.PullRequestObject.State = p2.PullRequestObject.State

\* C19: the Versions of two pull requests are equal exactly when the two
\* agree on Number, Tip.OID, UpdatedAt, ApprovedReviewCount and State.
C19_VersionDependsOnFiveFields ==
    Done("NewVersion") => (ret[1] = ret[2] <=> SameFiveFields(args.p1, args.p2))

\* Two pull requests that differ in title, draft flag, commit message and
\* labels only have the same Version.
C19_Witness ==
    /\ Done("NewVersion")
    /\ SameFiveFields(args.p1, args.p2)
    /\ args.p1.PullRequestObject.Title # args.p2.PullRequestObject.Title
    /\ args.p1.PullRequestObject.IsDraft # args.p2.PullRequestObject.IsDraft
    /\ args.p1.Tip.Message # args.p2.Tip.Message
    /\ args.p1.Labels # args.p2.Labels
    /\ ret[1] = ret[2]
\* The argument when it is not empty, the default otherwise.
Effective(value, default) == IF Len(value) > 0 THEN value ELSE default
Contains(pieces, text) == \E i \in 1..Len(pieces) : pieces[i] = text

\* C12: every optional argument of UpdateCommitStatus is sent as given when
\* it is not empty and replaced by its own default when it is empty; the
\* context sent is the path-join of the effective baseContext and
\* statusContext, "concourse-ci/status" when all optional arguments are
\* empty, and the default description contains the status as given.
C12_StatusDefaults ==
    (op = "UpdateCommitStatus" /\ requests # <<>>) =>
        LET sent == requests[1].arg.status
            envURL == args.env.ATC_EXTERNAL_URL \o <<"/", "builds", "/">> \o args.env.BUILD_ID
        IN /\ sent.TargetURL = Effective(args.targetURL, envURL)
           /\ sent.Description =
                 Effective(args.description, <<"Concourse CI build ", args.status>>)
           /\ sent.Context = PathJoin(Effective(args.baseContext, <<"concourse-ci">>),
                                      Effective(args.statusContext, <<"status">>))
           /\ (args.baseContext = <<>> /\ args.statusContext = <<>>) =>
                 sent.Context = <<"concourse-ci", "/", "status">>
           /\ (args.baseContext # <<>> /\ args.statusContext = <<>>) =>
                 /\ SubSeq(sent.Context, Len(sent.Context) - 1, Len(sent.Context))
                       = <<"/", "status">>
                 /\ sent.Context[1] = args.baseContext[1]
           /\ args.description = <<>> => Contains(sent.Description, args.status)

\* All optional arguments empty: context "concourse-ci/status", and the
\* description holds the status as given.
C12_Witness ==
    /\ Done("UpdateCommitStatus")
    /\ args.baseContext = <<>>
    /\ args.statusContext = <<>>
    /\ args.targetURL = <<>>
    /\ args.description = <<>>
    /\ args.status = "SUCCESS"
    /\ requests[1].arg.status.Context = <<"concourse-ci", "/", "status">>
    /\ Contains(requests[1].arg.status.Description, "SUCCESS")
    /\ requests[1].arg.status.TargetURL = <<"https://ci.example.com", "/", "builds", "/", "123">>
\* s is an integer in decimal: digits after an optional sign.
IsInteger(s) ==
    \E sign \in {<<>>, <<"+">>, <<"-">>} :
        \E digits \in SeqsUpTo({"0", "1", "2", "3", "4", "5", "6", "7", "8", "9"}, 2) :
            digits # <<>> /\ s = sign \o digits
OpsWithPrNumberString ==
    {"PostComment", "GetPullRequest", "GetChangedFiles", "DeletePreviousComments"}

\* C13: with a prNumber that is no integer the four calls send no request at
\* all and return the conversion error, which is no transport error.
C13_BadPrNumberSendsNothing ==
    (op \in OpsWithPrNumberString /\ ~IsInteger(args.prNumber)) =>
        /\ requests = <<>>
        /\ pc = "done"
        /\ err = ErrAtoi
        /\ ~IsTransportError(err)
        /\ ret = <<>>

\* PostComment("4x", ...) has returned the conversion error without a request.
C13_Witness ==
    /\ Done("PostComment")
    /\ args.prNumber = <<"4", "x">>
    /\ requests = <<>>
    /\ err = ErrAtoi
\* C14: Metadata is append-only. Every Add makes the sequence one longer,
\* leaves the entries it held as they were and in their order, and puts the
\* added pair last, whether or not its name is already there.
C14_MetadataAppendOnly ==
    [][(pc = "metadata" /\ pc' = "metadata") =>
          /\ Len(metadata') = Len(metadata) + 1
          /\ \A i \in 1..Len(metadata) : metadata'[i] = metadata[i]
          /\ metadata'[Len(metadata')].Name = args'.name
          /\ metadata'[Len(metadata')].Value = args'.value]_vars

\* Two Adds of the name "pr" have left two entries, in the order added.
C14_Witness ==
    /\ Done("Metadata")
    /\ ret = << [Name |-> "pr", Value |-> "1"], [Name |-> "pr", Value |-> "2"] >>
\* C15: within one paginated call no two page fetches are issued with the
\* same cursor/page argument.
C15_StrictProgress ==
    op \in PaginatedOps =>
        \A i, j \in 1..Len(requests) :
            (i # j /\ requests[i].outcome = "ok" /\ requests[j].outcome = "ok")
                => requests[i].arg # requests[j].arg
\* The rules of Validate a Source breaks: 1 token, 2 repository, 3 endpoint
\* pair, 4 states.
AllowedStates == {"OPEN", "CLOSED", "MERGED"}
InvalidStateIndexes(s) == {i \in 1..Len(s.States) : s.States[i] \notin AllowedStates}
ViolatedRules(s) ==
    {k \in 1..4 :
        \/ k = 1 /\ s.AccessToken = ""
        \/ k = 2 /\ s.Repository = <<>>
        \/ k = 3 /\ ~(s.V3Endpoint = "" <=> s.V4Endpoint = "")
        \/ k = 4 /\ InvalidStateIndexes(s) # {}}
Least(S) == CHOOSE k \in S : \A m \in S : k <= m
ErrorsOfRule(s, k) ==
    CASE k = 1 -> {ErrToken}
      [] k = 2 -> {ErrRepository}
      [] k = 3 -> {ErrV4Missing, ErrV3Missing}
      [] k = 4 -> {ErrState(s.States[Least(InvalidStateIndexes(s))])}

\* C16: Validate reports the earliest violated rule, in the order token,
\* repository, endpoint pair, states, and for the states rule it names the
\* first invalid entry of the list.
C16_FirstFailureWins ==
    (Done("Validate") /\ ViolatedRules(args.s) # {}) =>
        err \in ErrorsOfRule(args.s, Least(ViolatedRules(args.s)))

\* A Source without repository, with one endpoint only and two invalid
\* states is refused for its repository.
C16_Witness ==
    /\ Done("Validate")
    /\ ViolatedRules(args.s) = {2, 3, 4}
    /\ args.s.States = <<"open", "DRAFT">>
    /\ err = ErrRepository
\* The node of the search result a returned record was built from (node k is
\* pull request number k).
NodeOf(p) == Flatten(remote.search)[p.PullRequestObject.Number]

\* C17 (as claimed): each PullRequest returned by SearchPullRequests carries
\* its node's approved-review count and a Labels list equal to the labels on
\* the node's label edges: same length, same names, same order.
C17_LabelsOfNode ==
    Succeeded("SearchPullRequests") =>
        \A i \in 1..Len(ret) :
            /\ ret[i].ApprovedReviewCount = NodeOf(ret[i]).Reviews.TotalCount
            /\ Len(ret[i].Labels) = Len(NodeOf(ret[i]).Labels)
            /\ \A j \in 1..Len(NodeOf(ret[i]).Labels) :
                  ret[i].Labels[j].Name = NodeOf(ret[i]).Labels[j].Name
\* C18: a PullRequest returned by GetPullRequest has ApprovedReviewCount 0 and
\* no Labels whatever approvals and labels the remote holds for the pull
\* request, and the Version derived from it has ApprovedReviewCount "0".
C18_LookupLeavesReviewsUnset ==
    (Done("GetPullRequest") /\ ret # <<>>) =>
        /\ ret[1].ApprovedReviewCount = 0
        /\ ret[1].Labels = <<>>
        /\ NewVersion(ret[1]).ApprovedReviewCount = <<"0">>
        /\ ret[1].PullRequestObject = remote.pr
        /\ \E i \in 1..Len(remote.commits) : ret[1].Tip = remote.commits[i]

\* The pull request has two approvals and a label on the remote, and the
\* lookup has returned it.
C18_Witness ==
    /\ Succeeded("GetPullRequest")
    /\ remote.approvals = 2
    /\ remote.labels = <<[Name |-> "bug"]>>
    /\ ret # <<>>
    /\ NewVersion(ret[1]).PR = args.prNumber
\* The outcomes the remote gave to a sequence of requests.
Outcomes(reqs) == [i \in 1..Len(reqs) |-> reqs[i].outcome]

\* C20: GetChangedFiles does not depend on commitRef. A second call with the
\* same prNumber, another commitRef and the remote unchanged issues the same
\* requests as the first as long as the remote answers alike, and when it has
\* answered alike to the end the two calls return the same files and error.
C20_CommitRefIgnored ==
    (op = "GetChangedFiles" /\ firstCall.set) =>
        /\ args.commitRef # firstCall.commitRef
        /\ \A i \in 1..Len(requests) :
              (/\ i <= Len(firstCall.requests)
               /\ \A j \in 1..(i - 1) :
                     requests[j].outcome = firstCall.requests[j].outcome)
              => /\ requests[i].api = firstCall.requests[i].api
                 /\ requests[i].arg = firstCall.requests[i].arg
        /\ (pc = "done" /\ Outcomes(requests) = Outcomes(firstCall.requests)) =>
              /\ requests = firstCall.requests
              /\ ret = firstCall.ret
              /\ err = firstCall.err

\* Two calls over two pages of files with different commit refs have both
\* returned the three files.
C20_Witness ==
    /\ Succeeded("GetChangedFiles")
    /\ firstCall.set
    /\ firstCall.commitRef = "abc123"
    /\ args.commitRef = "def456"
    /\ Len(requests) = 2
    /\ Len(ret) = 3
    /\ ret = firstCall.ret
====
